---- MODULE Spec2Model ----
(***************************************************************************)
(* State-machine model of src/index.js: the broken-link web crawler        *)
(* (webCrawlerController, grabLinks, resetPage and the request handler).   *)
(* One action per block of the controller; the collaborators (browser      *)
(* page, Synthetics, report) are modelled at their interface, their        *)
(* results and failures being nondeterministic choices.                    *)
(***************************************************************************)
EXTENDS Integers, Sequences, FiniteSets, TLC

\* ------------------------------------------------------------------------
\* Bounds of the model
\* ------------------------------------------------------------------------
MaxSeeds == 2          \* longest seed list (URL_LIST) drawn in Init
MaxCap == 3            \* largest MAX_NUM_LINKS_TO_FOLLOW drawn in Init
MaxAnchors == 2        \* most anchor elements on one page
MaxFlat == 12          \* longest seed list of the flat crawls

\* ------------------------------------------------------------------------
\* JavaScript values
\* ------------------------------------------------------------------------
\* null / undefined where a string is expected ('' + null is "null")
NULL == "null"
UNDEF == "undefined"
\* undefined where a number is expected (response.status() of a response
\* without status; a statusCode that was never populated)
Undefined == -1

\* if (x) on a number: undefined and 0 are falsy
Truthy(n) == n /= Undefined /\ n /= 0

\* '' + n
NumStr(n) == IF n = Undefined THEN UNDEF ELSE ToString(n)

\* String.prototype.startsWith
StartsWith(s, p) == Len(s) >= Len(p) /\ SubSeq(s, 1, Len(p)) = p

\* String.prototype.includes
Includes(s, p) == \E i \in 1..(Len(s) - Len(p) + 1) : SubSeq(s, i, i + Len(p) - 1) = p

\* String.prototype.trim (blanks only)
RECURSIVE TrimLeft(_)
TrimLeft(s) == IF Len(s) > 0 /\ SubSeq(s, 1, 1) = " " THEN TrimLeft(SubSeq(s, 2, Len(s))) ELSE s
RECURSIVE TrimRight(_)
TrimRight(s) == IF Len(s) > 0 /\ SubSeq(s, Len(s), Len(s)) = " " THEN TrimRight(SubSeq(s, 1, Len(s) - 1)) ELSE s
Trim(s) == TrimRight(TrimLeft(s))

\* Array.prototype.includes on a sequence
InSeq(x, seq) == \E i \in 1..Len(seq) : seq[i] = x

\* ------------------------------------------------------------------------
\* Configuration (lines 9-51) and the inputs the model draws
\* ------------------------------------------------------------------------
\* line 15 (DOMAIN is a reserved word of TLA+)
DOMAIN_ == "mydomain.com"

\* line 31
TIMEOUT == 15000
\* line 36
NETWORK_WAIT_CONDITION == "domcontentloaded"

\* lines 184 and 243-246: the options object passed to page.goto. The
\* shorthand property TIMEOUT has the key "TIMEOUT".
GotoOptions == [waitUntil |-> <<"load", NETWORK_WAIT_CONDITION>>, TIMEOUT |-> TIMEOUT]

UA == "https://www.mydomain.com/"
UB == "https://www.mydomain.com/b"
UC == "http://other.org/c"
UD == "https://www.mydomain.com/d"

\* URLs a seed list is drawn from
SeedUrls == {UA, UB}

\* values of NUM_LINKS_TO_RELAUNCH_BROWSER drawn in Init (5 is the source's)
RelaunchIntervals == {2, 5}

\* anchor elements (href, text) a page may hold
Anchor(h, t) == [href |-> h, text |-> t]
AllAnchors ==
    { Anchor(UB, "b"), Anchor(UC, " c "), Anchor(UD, ""),
      Anchor("", "no href"), Anchor("mailto:me@mydomain.com", "mail") }

\* lines 86 and 95 for each of these elements, evaluated once:
\* String(element.href).trim() and element.text ? element.text.trim() : ''
HrefOf == [e \in AllAnchors |-> Trim(e.href)]
TextOf == [e \in AllAnchors |-> IF e.text /= "" THEN Trim(e.text) ELSE ""]
\* line 93 for each of these hrefs: url.startsWith('http') || url.startsWith('https')
HasHttpPrefix ==
    [u \in {HrefOf[e] : e \in AllAnchors} |-> StartsWith(u, "http") \/ StartsWith(u, "https")]

\* errors thrown by the collaborators; error.toString() and '' + error
ERR_NAV == "Error: net::ERR_NAME_NOT_RESOLVED"
ERR_TIMEOUT == "TimeoutError: Navigation timeout exceeded"
ERR_PROTOCOL == "Error: Protocol error"

\* response.statusText() of a response with the given status
StatusText(s) ==
    CASE s = 200 -> "OK"
      [] s = 399 -> "Unassigned"
      [] s = 400 -> "Bad Request"
      [] s = 404 -> "Not Found"
      [] s = 500 -> "Internal Server Error"
      [] OTHER -> ""

\* outcome of page.goto: throws, resolves with null, or resolves with a response
Throws(e) == [kind |-> "throw", status |-> Undefined, error |-> e]
NoResponse == [kind |-> "null", status |-> Undefined, error |-> NULL]
Response(s) == [kind |-> "response", status |-> s, error |-> NULL]

AllStatuses == {Undefined, 0, 200, 399, 400, 404, 500}
AllOutcomes ==
    {Throws(ERR_NAV), Throws(ERR_TIMEOUT), NoResponse} \cup {Response(s) : s \in AllStatuses}

\* intercepted requests: resource type and URL
Request(t, u) == [type |-> t, url |-> u]
AllRequests ==
    { Request("document", UA), Request("document", UC),
      Request("image", UA), Request("script", UC) }

\* ------------------------------------------------------------------------
\* SyntheticsLink (lines 133, 204, 249-273): a record enriched by with*()
\* ------------------------------------------------------------------------
SyntheticsLink(u) ==
    [url |-> u, parentUrl |-> UNDEF, text |-> UNDEF,
     statusCode |-> Undefined, statusText |-> UNDEF, failureReason |-> UNDEF,
     screenshots |-> << >>]
withParentUrl(l, p) == [l EXCEPT !.parentUrl = p]
withText(l, t) == [l EXCEPT !.text = t]
withStatusCode(l, c) == [l EXCEPT !.statusCode = c]
withStatusText(l, t) == [l EXCEPT !.statusText = t]
withFailureReason(l, r) == [l EXCEPT !.failureReason = r]
\* lines 263, 277: a screenshot result is kept, undefined is not
addScreenshotResult(l, r) == IF r = UNDEF THEN l ELSE [l EXCEPT !.screenshots = Append(@, r)]

\* ------------------------------------------------------------------------
\* State
\* ------------------------------------------------------------------------
VARIABLES
    URL_LIST,                       \* line 9
    MUST_INCLUDE_DOMAIN,            \* line 14
    MAX_NUM_LINKS_TO_FOLLOW,        \* line 20
    NUM_LINKS_TO_RELAUNCH_BROWSER,  \* line 26
    CAPTURE_DESTINATION_PAGE_SCREENSHOT_ON_SUCCESS,   \* line 46
    CAPTURE_DESTINATION_PAGE_SCREENSHOT_ON_FAILURE,   \* line 51
    web,                \* what the crawled site and the collaborators may do
    pc,                 \* position in webCrawlerController
    exploredUrls,       \* line 195
    synLinks,           \* line 196
    count,              \* line 197
    canaryError,        \* line 198
    brokenLinkError,    \* line 199
    report,             \* line 200: the links of brokenLinkCheckerReport
    page,               \* line 201: the page in use
    link,               \* line 208
    response,           \* line 211
    outcome,            \* how the try block of lines 230-246 ended for this link
    scanned,            \* the page grabLinks ran over in this iteration
    resolved,           \* the request the handler resolved last during page.goto
    sessionLog,         \* what lines 218-224 did in each iteration
    dequeued,           \* the URLs shifted off synLinks, in order
    enqueued,           \* the URLs pushed on synLinks, in order
    attached,           \* synthetics.addReport succeeded
    logged,             \* messages passed to log.info
    thrown              \* what the handler's promise rejects with

config == <<URL_LIST, MUST_INCLUDE_DOMAIN, MAX_NUM_LINKS_TO_FOLLOW,
            NUM_LINKS_TO_RELAUNCH_BROWSER, CAPTURE_DESTINATION_PAGE_SCREENSHOT_ON_SUCCESS,
            CAPTURE_DESTINATION_PAGE_SCREENSHOT_ON_FAILURE, web>>
vars == <<URL_LIST, MUST_INCLUDE_DOMAIN, MAX_NUM_LINKS_TO_FOLLOW,
          NUM_LINKS_TO_RELAUNCH_BROWSER, CAPTURE_DESTINATION_PAGE_SCREENSHOT_ON_SUCCESS,
          CAPTURE_DESTINATION_PAGE_SCREENSHOT_ON_FAILURE, web, pc, exploredUrls, synLinks, count,
          canaryError, brokenLinkError, report, page, link, response, outcome, scanned,
          resolved, sessionLog, dequeued, enqueued, attached, logged, thrown>>

\* sequences over S of length lo..hi
SeqsOf(S, lo, hi) == UNION { [1..n -> S] : n \in lo..hi }

\* a page as synthetics.getPage() returns it: no interception, no listener,
\* no navigation issued
NewPage(n) ==
    [id |-> n, interception |-> FALSE, listeners |-> 0, location |-> "about:blank",
     gotoOptions |-> << >>]

\* page.goto(url, options) is issued on the page: the options it was called with
goto(p, options) == [p EXCEPT !.gotoOptions = <<options>>]

NoLink == SyntheticsLink(NULL)

\* no navigation attempted yet; grabLinks not called
NoOutcome == [kind |-> "none", status |-> Undefined, error |-> NULL]
NotScanned == [ran |-> FALSE, seen |-> 0, fresh |-> << >>, threw |-> FALSE]

\* the state before webCrawlerController runs, for the given configurations
InitOf(seedLists, caps, intervals, flags, webs, toggles) ==
    /\ URL_LIST \in seedLists
    /\ MAX_NUM_LINKS_TO_FOLLOW \in caps
    /\ NUM_LINKS_TO_RELAUNCH_BROWSER \in intervals
    /\ MUST_INCLUDE_DOMAIN \in flags
    /\ CAPTURE_DESTINATION_PAGE_SCREENSHOT_ON_SUCCESS \in toggles
    /\ CAPTURE_DESTINATION_PAGE_SCREENSHOT_ON_FAILURE \in toggles
    /\ web \in webs
    /\ pc = "setup"
    /\ exploredUrls = << >>
    /\ synLinks = << >>
    /\ count = 0
    /\ canaryError = NULL
    /\ brokenLinkError = NULL
    /\ report = << >>
    /\ page = NewPage(0)
    /\ link = NoLink
    /\ response = NoResponse
    /\ outcome = NoOutcome
    /\ scanned = NotScanned
    /\ resolved = << >>
    /\ sessionLog = << >>
    /\ dequeued = << >>
    /\ enqueued = << >>
    /\ attached = FALSE
    /\ logged = << >>
    /\ thrown = NULL

\* the same with the screenshot toggles as the source has them (lines 46, 51)
InitWith(seedLists, caps, intervals, flags, webs) ==
    InitOf(seedLists, caps, intervals, flags, webs, {FALSE})

\* everything the site and the collaborators can do
AnyWeb ==
    [outcomes |-> AllOutcomes, anchors |-> AllAnchors, requests |-> AllRequests, faults |-> TRUE]

\* a site whose pages load (200), are missing (404) or cannot be reached
CrawlWeb ==
    [outcomes |-> {Throws(ERR_NAV), Response(200), Response(404)},
     anchors |-> AllAnchors \ {Anchor("", "no href")},
     requests |-> {Request("document", UC)}, faults |-> TRUE]

\* a site whose pages load or are missing, every page holding links
LinkedWeb ==
    [outcomes |-> {Response(200), Response(404)},
     anchors |-> {Anchor(UB, "b"), Anchor(UC, " c "), Anchor(UD, "")},
     requests |-> {Request("image", UA)}, faults |-> TRUE]

\* a site whose pages all load and hold no link; no collaborator fails
FlatWeb ==
    [outcomes |-> {Response(200)}, anchors |-> {Anchor("", "no href")},
     requests |-> {Request("document", UA)}, faults |-> FALSE]

\* a site whose pages load, fail (500) or time out, with the links b and d
AuxWeb ==
    [outcomes |-> {Throws(ERR_TIMEOUT), Response(200), Response(500)},
     anchors |-> {Anchor(UB, "b"), Anchor(UD, "")},
     requests |-> {Request("script", UC)}, faults |-> TRUE]

\* the crawl: seed lists, caps and intervals within the bounds
Init ==
    InitWith(SeqsOf(SeedUrls, 0, MaxSeeds), 1..MaxCap, RelaunchIntervals, {TRUE}, {CrawlWeb})

\* navigation and classification: one seed, every outcome of a navigation
InitNav == InitWith({<<UA>>, <<UA, UB>>}, {1, 2}, {2}, BOOLEAN, {AnyWeb})

\* two seeds and a cap of 4
InitFifo == InitWith({<<UA, UB>>, <<UB, UA>>}, {4}, RelaunchIntervals, {TRUE}, {LinkedWeb})

\* one or two seeds, every setting of the destination screenshot toggles
InitAux ==
    InitOf({<<UA>>, <<UA, UB>>}, {2, 3}, RelaunchIntervals, {TRUE}, {AuxWeb}, BOOLEAN)

\* long flat crawls: up to MaxFlat seeds, every interval up to 5 (the source's)
FlatUrl(i) == UA \o "p" \o ToString(i)
InitFlat ==
    InitWith({[i \in 1..n |-> FlatUrl(i)] : n \in 1..MaxFlat}, 1..(MaxFlat + 1), 1..5,
             {TRUE}, {FlatWeb})

\* ------------------------------------------------------------------------
\* lines 193-205: setup
\* ------------------------------------------------------------------------
Setup ==
    /\ pc = "setup"
    /\ exploredUrls' = URL_LIST
    /\ \/ /\ page' = NewPage(1)
          /\ synLinks' = [i \in 1..Len(URL_LIST) |-> SyntheticsLink(URL_LIST[i])]
          /\ enqueued' = URL_LIST
          /\ pc' = "loop"
          /\ UNCHANGED thrown
       \/ /\ web.faults                 \* synthetics.getPage() throws
          /\ thrown' = ERR_PROTOCOL
          /\ pc' = "crashed"
          /\ UNCHANGED <<page, synLinks, enqueued>>
    /\ UNCHANGED <<config, count, canaryError, brokenLinkError, report, link, response,
                   outcome, scanned, resolved, sessionLog, dequeued, attached, logged>>

\* ------------------------------------------------------------------------
\* lines 207-213: loop head, dequeue
\* ------------------------------------------------------------------------
Dequeue ==
    /\ pc = "loop"
    /\ Len(synLinks) > 0
    /\ link' = Head(synLinks)
    /\ synLinks' = Tail(synLinks)
    /\ response' = NoResponse
    /\ outcome' = NoOutcome
    /\ scanned' = NotScanned
    /\ count' = count + 1
    /\ dequeued' = Append(dequeued, Head(synLinks).url)
    /\ pc' = "session"
    /\ UNCHANGED <<config, exploredUrls, canaryError, brokenLinkError, report, page,
                   resolved, sessionLog, enqueued, attached, logged, thrown>>

ExitLoop ==
    /\ pc = "loop"
    /\ Len(synLinks) = 0
    /\ pc' = "report"
    /\ scanned' = NotScanned
    /\ UNCHANGED <<config, exploredUrls, synLinks, count, canaryError, brokenLinkError,
                   report, page, link, response, outcome, resolved, sessionLog, dequeued,
                   enqueued, attached, logged, thrown>>

\* ------------------------------------------------------------------------
\* lines 182-188 and 218-224: reset page or close/launch
\* ------------------------------------------------------------------------
\* which branch of lines 218-224 runs for the n-th link
SessionAction_AlsoAtCap(n) ==
    IF n % NUM_LINKS_TO_RELAUNCH_BROWSER = 0
    THEN "relaunch"
    ELSE IF n /= 1 THEN "reset" ELSE "none"
SessionAction(n) ==
    IF n % NUM_LINKS_TO_RELAUNCH_BROWSER = 0 /\ n /= MAX_NUM_LINKS_TO_FOLLOW
    THEN "relaunch"
    ELSE IF n /= 1 THEN "reset" ELSE "none"

\* resetPage: the goto of about:blank succeeds, or throws and is swallowed
resetPage(p, ok) ==
    IF ok THEN [goto(p, GotoOptions) EXCEPT !.location = "about:blank"]
    ELSE goto(p, GotoOptions)

ManageSession ==
    /\ pc = "session"
    /\ sessionLog' = Append(sessionLog, SessionAction(count))
    /\ \/ /\ SessionAction(count) = "relaunch"
          /\ \/ /\ page' = NewPage(page.id + 1)
                /\ pc' = "intercept"
                /\ UNCHANGED thrown
             \/ /\ web.faults           \* close(), launch() or getPage() throws
                /\ thrown' = ERR_PROTOCOL
                /\ pc' = "crashed"
                /\ UNCHANGED page
       \/ /\ SessionAction(count) = "reset"
          /\ \E ok \in {TRUE} \cup {~web.faults} : page' = resetPage(page, ok)
          /\ pc' = "intercept"
          /\ UNCHANGED thrown
       \/ /\ SessionAction(count) = "none"
          /\ pc' = "intercept"
          /\ UNCHANGED <<page, thrown>>
    /\ UNCHANGED <<config, exploredUrls, synLinks, count, canaryError, brokenLinkError,
                   report, link, response, outcome, scanned, resolved, dequeued, enqueued,
                   attached, logged>>

\* ------------------------------------------------------------------------
\* lines 230-241: request interception and the request handler
\* ------------------------------------------------------------------------
setRequestInterception(p) == [p EXCEPT !.interception = TRUE]
removeAllListeners_None(p) == p
removeAllListeners(p) == [p EXCEPT !.listeners = 0]
on(p) == [p EXCEPT !.listeners = p.listeners + 1]

\* lines 234-240: what the handler does with a request
RequestHandler(request) ==
    IF request.type = "document"
    THEN IF MUST_INCLUDE_DOMAIN /\ Includes(request.url, DOMAIN_)
         THEN "continue"
         ELSE "continue"
    ELSE "abort"

\* lines 251-254: the catch block of the navigation
\* line 253
Caught_NoReason(l, error) == l
Caught(l, error) == withFailureReason(l, error)
CatchNavigation(error) ==
    /\ brokenLinkError' = "Failed to load url: " \o link.url \o ". " \o error
    /\ link' = Caught(link, error)
    /\ outcome' = Throws(error)

SetupInterception ==
    /\ pc = "intercept"
    /\ \/ /\ page' = on(removeAllListeners(setRequestInterception(page)))
          /\ pc' = "goto"
          /\ UNCHANGED <<link, brokenLinkError, outcome>>
       \/ /\ web.faults                 \* page.setRequestInterception throws
          /\ CatchNavigation(ERR_PROTOCOL)
          /\ pc' = "classify"
          /\ UNCHANGED page
    /\ resolved' = << >>
    /\ UNCHANGED <<config, exploredUrls, synLinks, count, canaryError, report, response,
                   scanned, sessionLog, dequeued, enqueued, attached, logged, thrown>>

\* a request the page emits during page.goto: with interception active each
\* registered listener is called with it and resolves it; without
\* interception it goes out unintercepted
HandleRequest ==
    /\ pc = "goto"
    /\ \E request \in web.requests :
          resolved' =
              IF page.interception
              THEN [i \in 1..page.listeners |->
                       [request |-> request, action |-> RequestHandler(request)]]
              ELSE << >>
    /\ UNCHANGED <<config, pc, exploredUrls, synLinks, count, canaryError, brokenLinkError,
                   report, page, link, response, outcome, scanned, sessionLog, dequeued,
                   enqueued, attached, logged, thrown>>

\* ------------------------------------------------------------------------
\* lines 243-254: navigation
\* ------------------------------------------------------------------------
Goto ==
    /\ pc = "goto"
    /\ \E o \in web.outcomes :
          \/ /\ o.kind = "throw"
             /\ CatchNavigation(o.error)
             /\ page' = goto(page, GotoOptions)
             /\ UNCHANGED response
          \/ /\ o.kind = "null"
             /\ response' = o
             /\ outcome' = o
             /\ brokenLinkError' = "Failed to receive network response for url: " \o link.url
             /\ link' = withFailureReason(link, "Received null or undefined response")
             /\ page' = goto(page, GotoOptions)
          \/ /\ o.kind = "response"
             /\ response' = o
             /\ outcome' = o
             /\ page' = [goto(page, GotoOptions) EXCEPT !.location = link.url]
             /\ UNCHANGED <<link, brokenLinkError>>
    /\ resolved' = << >>
    /\ pc' = "classify"
    /\ UNCHANGED <<config, exploredUrls, synLinks, count, canaryError, report, scanned,
                   sessionLog, dequeued, enqueued, attached, logged, thrown>>

\* ------------------------------------------------------------------------
\* lines 256-279: classification
\* ------------------------------------------------------------------------
\* line 259 and lines 294-296
Succeeded_UpTo400(r) == r.kind = "response" /\ Truthy(r.status) /\ r.status <= 400
Succeeded(r) == r.kind = "response" /\ Truthy(r.status) /\ r.status < 400

\* line 267
StatusString(r) == "Status code: " \o NumStr(r.status) \o " " \o StatusText(r.status)

\* lines 259-279: the link after classification
Classified(l, r) ==
    IF Succeeded(r)
    THEN withStatusText(withStatusCode(l, r.status), StatusText(r.status))
    ELSE IF r.kind = "response"
         THEN withFailureReason(
                  withStatusText(withStatusCode(l, r.status), StatusText(r.status)),
                  StatusString(r))
         ELSE l

\* lines 165-174: getFileName
\* the first position from i on at which p occurs in s, 0 if none
RECURSIVE IndexOf(_, _, _)
IndexOf(s, p, i) ==
    IF i + Len(p) - 1 > Len(s) THEN 0
    ELSE IF SubSeq(s, i, i + Len(p) - 1) = p THEN i
    ELSE IndexOf(s, p, i + 1)

\* line 168: new URL(url).pathname of an http(s) URL without query and hash
Pathname(url) ==
    LET rest == SubSeq(url, IndexOf(url, "://", 1) + 3, Len(url))
        slash == IndexOf(rest, "/", 1)
    IN IF slash = 0 THEN "/" ELSE SubSeq(rest, slash, Len(rest))

\* line 170: pathname.split('/').pop()
RECURSIVE LastSegment(_)
LastSegment(s) ==
    IF Len(s) = 0 \/ SubSeq(s, Len(s), Len(s)) = "/" THEN ""
    ELSE LastSegment(SubSeq(s, 1, Len(s) - 1)) \o SubSeq(s, Len(s), Len(s))

\* line 173: the characters that can be used in S3
S3Chars == "abcdefghijklmnopqrstuvwxyzABCDEFGHIJKLMNOPQRSTUVWXYZ0123456789-_.!*'()"
RECURSIVE S3Name(_)
S3Name(s) ==
    IF Len(s) = 0 THEN ""
    ELSE (IF Includes(S3Chars, SubSeq(s, 1, 1)) THEN SubSeq(s, 1, 1) ELSE "")
             \o S3Name(SubSeq(s, 2, Len(s)))

getFileName(url) ==
    IF url = "" THEN "loaded"
    ELSE LET path == Pathname(url)
             pathname == IF SubSeq(path, Len(path), Len(path)) = "/"
                         THEN SubSeq(path, 1, Len(path) - 1) ELSE path
             fileName == IF pathname /= "" THEN LastSegment(pathname) ELSE "index"
         IN S3Name(fileName)

\* lines 150-156: takeScreenshot. synthetics.takeScreenshot returns a result
\* (ok) or throws; the catch block swallows the error and undefined is returned
takeScreenshot_NoCatch(fileName, suffix, ok) ==
    IF ok THEN [threw |-> FALSE, value |-> fileName \o "-" \o suffix]
    ELSE [threw |-> TRUE, value |-> UNDEF]
takeScreenshot(fileName, suffix, ok) ==
    IF ok THEN [threw |-> FALSE, value |-> fileName \o "-" \o suffix]
    ELSE [threw |-> FALSE, value |-> UNDEF]

\* lines 261 and 275: a destination page screenshot is taken
Captures(r) ==
    \/ Succeeded(r) /\ CAPTURE_DESTINATION_PAGE_SCREENSHOT_ON_SUCCESS
    \/ ~Succeeded(r) /\ r.kind = "response" /\ CAPTURE_DESTINATION_PAGE_SCREENSHOT_ON_FAILURE

Classify ==
    /\ pc = "classify"
    /\ brokenLinkError' =
          IF ~Succeeded(response) /\ response.kind = "response"
          THEN "Failed to load url: " \o link.url \o ". " \o StatusString(response)
          ELSE brokenLinkError
    /\ IF Captures(response)
       THEN \E ok \in {TRUE} \cup {~web.faults} :
               LET screenshotResult ==
                       takeScreenshot(getFileName(link.url),
                                      IF Succeeded(response) THEN "succeeded" ELSE "failed", ok)
               IN IF screenshotResult.threw     \* an error leaving takeScreenshot
                  THEN /\ link' = Classified(link, response)
                       /\ thrown' = ERR_PROTOCOL
                       /\ pc' = "crashed"
                  ELSE /\ link' = addScreenshotResult(Classified(link, response),
                                                      screenshotResult.value)
                       /\ pc' = "record"
                       /\ UNCHANGED thrown
       ELSE /\ link' = Classified(link, response)
            /\ pc' = "record"
            /\ UNCHANGED thrown
    /\ UNCHANGED <<config, exploredUrls, synLinks, count, canaryError, report, page,
                   response, outcome, scanned, resolved, sessionLog, dequeued, enqueued,
                   attached, logged>>

\* ------------------------------------------------------------------------
\* BrokenLinkCheckerReport (lines 200, 285, 319, 324)
\* ------------------------------------------------------------------------
addLink(r, l) == Append(r, l)
getTotalLinksChecked(r) == Len(r)
getTotalBrokenLinks(r) == Cardinality({i \in 1..Len(r) : r[i].failureReason /= UNDEF})

\* lines 281-288
AddLink ==
    /\ pc = "record"
    /\ \/ report' = addLink(report, link)
       \/ /\ web.faults                 \* addLink throws, swallowed
          /\ UNCHANGED report
    /\ pc' = "extract"
    /\ UNCHANGED <<config, exploredUrls, synLinks, count, canaryError, brokenLinkError,
                   page, link, response, outcome, scanned, resolved, sessionLog, dequeued,
                   enqueued, attached, logged, thrown>>

\* ------------------------------------------------------------------------
\* lines 73-141: grabLinks
\* ------------------------------------------------------------------------
\* lines 89-94: the condition for grabbing a link
Grabbable(url, explored) ==
    /\ Len(url) > 0
    /\ ~InSeq(url, explored)
    /\ HasHttpPrefix[url]

\* line 137: the test that ends the loop, on the length of exploredUrls
CapReached_OffByOne(n) == n > MAX_NUM_LINKS_TO_FOLLOW
CapReached(n) == n >= MAX_NUM_LINKS_TO_FOLLOW

\* lines 82-139: the loop from anchor i on. failAt is the anchor at which
\* page.evaluate throws (none when beyond the anchors).
RECURSIVE GrabLoop(_, _, _, _, _, _)
GrabLoop(anchors, i, failAt, sourceUrl, explored, grabbed) ==
    IF i > Len(anchors)
    THEN [explored |-> explored, links |-> grabbed, threw |-> FALSE]
    ELSE IF i = failAt
    THEN [explored |-> explored, links |-> grabbed, threw |-> TRUE]
    ELSE LET url == HrefOf[anchors[i]]
             text == TextOf[anchors[i]]
         IN IF Grabbable(url, explored)
            THEN IF CapReached(Len(explored) + 1)
                 THEN [explored |-> Append(explored, url),
                       links |-> Append(grabbed, withText(withParentUrl(SyntheticsLink(url), sourceUrl), text)),
                       threw |-> FALSE]
                 ELSE GrabLoop(anchors, i + 1, failAt, sourceUrl, Append(explored, url),
                               Append(grabbed, withText(withParentUrl(SyntheticsLink(url), sourceUrl), text)))
            ELSE GrabLoop(anchors, i + 1, failAt, sourceUrl, explored, grabbed)

\* grabLinks on a page holding the given anchors. failAt = 0: evaluateHandle
\* or the evaluation of the length throws, before the first anchor.
grabLinks(anchors, failAt, sourceUrl, explored) ==
    IF failAt = 0
    THEN [explored |-> explored, links |-> << >>, threw |-> TRUE]
    ELSE GrabLoop(anchors, 1, failAt, sourceUrl, explored, << >>)

\* the http and https URLs among the hrefs
HttpUrls ==
    {u \in {HrefOf[e] : e \in AllAnchors} : StartsWith(u, "http://") \/ StartsWith(u, "https://")}

\* the hrefs of a page that are links to follow (non-empty, http or https,
\* not in seen), each once, in document order
RECURSIVE FreshUrls(_, _)
FreshUrls(anchors, seen) ==
    IF anchors = << >>
    THEN << >>
    ELSE LET u == HrefOf[Head(anchors)]
         IN IF u \in HttpUrls /\ u \notin {seen[i] : i \in 1..Len(seen)}
            THEN <<u>> \o FreshUrls(Tail(anchors), Append(seen, u))
            ELSE FreshUrls(Tail(anchors), seen)

\* ------------------------------------------------------------------------
\* lines 290-307: extraction
\* ------------------------------------------------------------------------
\* lines 293-298
MayExtract_IgnoringCap == Succeeded(response)
MayExtract == Succeeded(response) /\ Len(exploredUrls) < MAX_NUM_LINKS_TO_FOLLOW

LinkUrls(links) == [i \in 1..Len(links) |-> links[i].url]

\* line 302: synLinks.concat(moreLinks)
Enqueue_InFront(queue, moreLinks) == moreLinks \o queue
Enqueue(queue, moreLinks) == queue \o moreLinks

Extract ==
    /\ pc = "extract"
    /\ IF MayExtract
       THEN \E anchors \in SeqsOf(web.anchors, 0, MaxAnchors) :
            \E failAt \in IF web.faults THEN 0..(Len(anchors) + 1) ELSE {Len(anchors) + 1} :
               LET g == grabLinks(anchors, failAt, link.url, exploredUrls)
               IN /\ exploredUrls' = g.explored
                  /\ synLinks' = IF g.threw THEN synLinks ELSE Enqueue(synLinks, g.links)
                  /\ enqueued' = IF g.threw THEN enqueued ELSE enqueued \o LinkUrls(g.links)
                  /\ scanned' = [ran |-> TRUE, seen |-> Len(exploredUrls),
                                  fresh |-> FreshUrls(anchors, exploredUrls), threw |-> g.threw]
       ELSE UNCHANGED <<exploredUrls, synLinks, enqueued, scanned>>
    /\ pc' = "loop"
    /\ UNCHANGED <<config, count, canaryError, brokenLinkError, report, page, link,
                   response, outcome, resolved, sessionLog, dequeued, attached, logged,
                   thrown>>

\* ------------------------------------------------------------------------
\* lines 310-333: report and verdict
\* ------------------------------------------------------------------------
AddReport ==
    /\ pc = "report"
    /\ \/ attached' = TRUE
       \/ /\ web.faults                 \* synthetics.addReport throws, swallowed
          /\ UNCHANGED attached
    /\ logged' = Append(logged, "Total links checked: " \o ToString(getTotalLinksChecked(report)))
    /\ pc' = "verdict"
    /\ UNCHANGED <<config, exploredUrls, synLinks, count, canaryError, brokenLinkError,
                   report, page, link, response, outcome, scanned, resolved, sessionLog,
                   dequeued, enqueued, thrown>>

\* lines 324-330: canaryError after the check of the broken links
CanaryErrorAfter_MoreThanOne(r, ble, ce) ==
    IF getTotalBrokenLinks(r) > 1
    THEN ToString(getTotalBrokenLinks(r)) \o " broken link(s) detected. " \o ble
    ELSE ce
CanaryErrorAfter(r, ble, ce) ==
    IF getTotalBrokenLinks(r) /= 0
    THEN IF ce /= NULL
         THEN ToString(getTotalBrokenLinks(r)) \o " broken link(s) detected. " \o ble \o " " \o ce
         ELSE ToString(getTotalBrokenLinks(r)) \o " broken link(s) detected. " \o ble
    ELSE ce

Verdict ==
    /\ pc = "verdict"
    /\ brokenLinkError' =
          IF getTotalBrokenLinks(report) /= 0
          THEN ToString(getTotalBrokenLinks(report)) \o " broken link(s) detected. " \o brokenLinkError
          ELSE brokenLinkError
    /\ canaryError' = CanaryErrorAfter(report, brokenLinkError, canaryError)
    /\ IF canaryError' /= NULL
       THEN thrown' = canaryError' /\ pc' = "failed"
       ELSE pc' = "done" /\ UNCHANGED thrown
    /\ UNCHANGED <<config, exploredUrls, synLinks, count, report, page, link, response,
                   outcome, scanned, resolved, sessionLog, dequeued, enqueued, attached,
                   logged>>

Next ==
    \/ Setup
    \/ Dequeue
    \/ ExitLoop
    \/ ManageSession
    \/ SetupInterception
    \/ HandleRequest
    \/ Goto
    \/ Classify
    \/ AddLink
    \/ Extract
    \/ AddReport
    \/ Verdict

Spec == Init /\ [][Next]_vars
SpecNav == InitNav /\ [][Next]_vars
SpecFifo == InitFifo /\ [][Next]_vars
SpecFlat == InitFlat /\ [][Next]_vars

\* the crawl when every awaited call returns or throws: the controller takes
\* its next step, and a pending page.goto ends
SpecAux == InitAux /\ [][Next]_vars
SpecLive == Init /\ [][Next]_vars /\ WF_vars(Next) /\ WF_vars(Goto)

\* ------------------------------------------------------------------------
\* Properties
\* ------------------------------------------------------------------------
NoDuplicates(seq) == \A i, j \in 1..Len(seq) : seq[i] = seq[j] => i = j
UrlsIn(seq) == {seq[i] : i \in 1..Len(seq)}
Min(a, b) == IF a <= b THEN a ELSE b

RECURSIVE IsSubSeq(_, _)
IsSubSeq(a, b) ==
    IF a = << >> THEN TRUE
    ELSE IF b = << >> THEN FALSE
    ELSE IF Head(a) = Head(b) THEN IsSubSeq(Tail(a), Tail(b))
    ELSE IsSubSeq(a, Tail(b))

\* the entries of the report that carry a failureReason
RECURSIVE CountBroken(_)
CountBroken(entries) ==
    IF entries = << >> THEN 0
    ELSE (IF Head(entries).failureReason /= UNDEF THEN 1 ELSE 0) + CountBroken(Tail(entries))

\* C1 (dedup): in every reachable state no URL occurs more than once in the
\* pending queue and the report entries taken together, no URL is enqueued
\* twice and no link is dequeued twice, for every seed list.
C1_Dedup ==
    /\ NoDuplicates(LinkUrls(synLinks) \o LinkUrls(report))
    /\ NoDuplicates(enqueued)
    /\ NoDuplicates(dequeued)

\* C2 (cap bound): for a non-empty seed list the number of URLs in
\* exploredUrls never exceeds MAX_NUM_LINKS_TO_FOLLOW, and once it has reached
\* it no step appends a link to the pending queue.
C2_CapBound ==
    [][ /\ URL_LIST /= << >> =>
              Cardinality(UrlsIn(exploredUrls')) <= MAX_NUM_LINKS_TO_FOLLOW
        /\ (pc /= "setup" /\ Cardinality(UrlsIn(exploredUrls)) >= MAX_NUM_LINKS_TO_FOLLOW) =>
              enqueued' = enqueued ]_vars

\* C3 (exact cap admission): when grabLinks has run to its end over a page
\* with s = |exploredUrls| < M before it and k fresh links on the page, exactly
\* min(k, M - s) URLs were added to exploredUrls and appended to the queue, they
\* are the first fresh links of the page in document order, and exploredUrls
\* has not grown beyond M. (A scan that threw added no more than the first of
\* them.)
C3_ExactCapAdmission ==
    (pc = "loop" /\ scanned.ran) =>
        LET s == scanned.seen
            n == Min(Len(scanned.fresh), MAX_NUM_LINKS_TO_FOLLOW - s)
            q == Len(synLinks)
            j == Len(exploredUrls) - s
        IN /\ s < MAX_NUM_LINKS_TO_FOLLOW
           /\ Len(exploredUrls) <= MAX_NUM_LINKS_TO_FOLLOW
           /\ j \in 0..n
           /\ SubSeq(exploredUrls, s + 1, s + j) = SubSeq(scanned.fresh, 1, j)
           /\ ~scanned.threw =>
                 /\ j = n
                 /\ q >= n
                 /\ LinkUrls(SubSeq(synLinks, q - n + 1, q)) = SubSeq(scanned.fresh, 1, n)

\* C3 witness: a page holding two fresh links was scanned with room for one.
C3_Witness ==
    /\ pc = "loop" /\ scanned.ran /\ ~scanned.threw
    /\ Len(scanned.fresh) = 2
    /\ scanned.seen = MAX_NUM_LINKS_TO_FOLLOW - 1
    /\ Len(exploredUrls) = MAX_NUM_LINKS_TO_FOLLOW
    /\ synLinks /= << >>

\* C4 (FIFO): the links dequeued so far followed by the pending ones are the
\* links in the order they were enqueued, the seeds first in the given order;
\* the report entries are in the order of the dequeues.
C4_Fifo ==
    /\ dequeued \o LinkUrls(synLinks) = enqueued
    /\ (pc /= "setup" /\ enqueued /= << >>) =>
          /\ Len(enqueued) >= Len(URL_LIST)
          /\ SubSeq(enqueued, 1, Len(URL_LIST)) = URL_LIST
    /\ IsSubSeq(LinkUrls(report), dequeued)
    /\ (pc \in {"extract", "loop"} /\ Len(report) > 0 /\ count > 0
          /\ report[Len(report)].url /= dequeued[count]) =>
          Len(report) < count

\* C4 witness: seeds A, B with A -> A1 and B -> B1 were processed A, B, A1, B1.
C4_Witness ==
    /\ URL_LIST = <<UA, UB>>
    /\ dequeued = <<UA, UB, UC, UD>>
    /\ LinkUrls(report) = dequeued
    /\ report[3].parentUrl = UA
    /\ report[4].parentUrl = UB

\* C5 (status classification): a link whose navigation returned a response
\* with status code c is recorded with statusCode and statusText populated,
\* without failureReason when c < 400 and with failureReason
\* "Status code: <code> <text>" when c >= 400; failureReason is populated
\* exactly when the link did not succeed.
C5_StatusClassification ==
    pc \in {"record", "extract"} =>
        /\ (outcome.kind = "response" /\ outcome.status >= 1) =>
              /\ link.statusCode = outcome.status
              /\ link.statusText = StatusText(outcome.status)
              /\ outcome.status < 400 => link.failureReason = UNDEF
              /\ outcome.status >= 400 =>
                    link.failureReason =
                        "Status code: " \o ToString(outcome.status) \o " "
                            \o StatusText(outcome.status)
        /\ link.failureReason /= UNDEF <=>
              ~(outcome.kind = "response" /\ outcome.status >= 1 /\ outcome.status < 400)

\* C5 witness: 399 was recorded as succeeded and 400 as broken.
C5_Witness ==
    /\ Len(report) = 2
    /\ report[1].statusCode = 399 /\ report[1].failureReason = UNDEF
    /\ report[2].statusCode = 400
    /\ report[2].failureReason = "Status code: 400 Bad Request"

\* C6 (transport error, missing response): a link whose navigation threw or
\* resolved with no response carries the failureReason (the error, or the
\* fixed text) and no statusCode/statusText; nothing is extracted from it and
\* the loop goes on to the next queued link.
C6_Errored ==
    [][ /\ (pc \in {"record", "extract"} /\ outcome.kind \in {"throw", "null"}) =>
              /\ link.failureReason =
                    (IF outcome.kind = "throw" THEN outcome.error
                     ELSE "Received null or undefined response")
              /\ link.statusCode = Undefined
              /\ link.statusText = UNDEF
        /\ (pc = "record" /\ outcome.kind \in {"throw", "null"}) =>
              report' \in {report, Append(report, link)}
        /\ (pc = "extract" /\ outcome.kind \in {"throw", "null"}) =>
              /\ pc' = "loop"
              /\ UNCHANGED <<exploredUrls, synLinks>>
        /\ (pc = "loop" /\ synLinks /= << >>) =>
              /\ pc' = "session"
              /\ link' = Head(synLinks) ]_vars

\* C6 witness: the first link threw, the second got no response, both were
\* recorded and the crawl went on.
C6_Witness ==
    /\ Len(report) = 2
    /\ report[1].failureReason = ERR_TIMEOUT
    /\ report[1].statusCode = Undefined /\ report[1].statusText = UNDEF
    /\ report[2].failureReason = "Received null or undefined response"
    /\ report[2].statusCode = Undefined /\ report[2].statusText = UNDEF

\* C7 (falsy status): a link whose navigation returned a response with an
\* undefined or 0 status is recorded like a missing response: the
\* missing-response failureReason and no statusCode/statusText.
C7_FalsyStatus ==
    (pc \in {"record", "extract"} /\ outcome.kind = "response"
        /\ (outcome.status = Undefined \/ outcome.status = 0)) =>
        /\ link.failureReason = "Received null or undefined response"
        /\ link.statusCode = Undefined
        /\ link.statusText = UNDEF

\* C8 (exit verdict): when the traversal has completed the crawl throws if and
\* only if the report holds an entry with a failureReason, and the total of
\* links checked has been logged before the verdict in both cases.
C8_ExitVerdict ==
    /\ pc \in {"done", "failed"} =>
          /\ pc = "failed" <=> CountBroken(report) /= 0
          /\ thrown /= NULL <=> CountBroken(report) /= 0
    /\ pc \in {"verdict", "done", "failed"} =>
          logged = <<"Total links checked: " \o ToString(Len(report))>>

\* C8 witness: two links checked, one of them broken, and the crawl failed.
C8_Witness ==
    /\ pc = "failed"
    /\ Len(report) = 2
    /\ CountBroken(report) = 1
    /\ thrown /= NULL

\* C9 (session schedule): before the navigation of the n-th dequeued link
\* exactly one action is taken: a relaunch iff n is a positive multiple of R
\* and n /= M, otherwise a reset iff n /= 1, otherwise nothing; each relaunch
\* yields a new page. With R = 5 and M = 12, 12 links relaunch before #5 and
\* #10 only.
IsMultipleOf(n, r) == \E k \in 1..n : n = k * r
Scheduled(n) ==
    IF IsMultipleOf(n, NUM_LINKS_TO_RELAUNCH_BROWSER) /\ n /= MAX_NUM_LINKS_TO_FOLLOW
    THEN "relaunch"
    ELSE IF n /= 1 THEN "reset" ELSE "none"
Relaunches == {n \in 1..Len(sessionLog) : sessionLog[n] = "relaunch"}
C9_SessionSchedule ==
    /\ \A n \in 1..Len(sessionLog) : sessionLog[n] = Scheduled(n)
    /\ pc = "session" => Len(sessionLog) = count - 1
    /\ pc \in {"intercept", "goto", "classify", "record", "extract"} => Len(sessionLog) = count
    /\ pc \notin {"setup", "crashed"} => page.id = 1 + Cardinality(Relaunches)
    /\ (pc = "intercept" /\ sessionLog[count] = "relaunch") => page = NewPage(page.id)
    /\ (NUM_LINKS_TO_RELAUNCH_BROWSER = 5 /\ MAX_NUM_LINKS_TO_FOLLOW = 12
          /\ Len(sessionLog) = 12) => Relaunches = {5, 10}

\* C9 witness: a crawl of 12 links with R = 5 and M = 12 has ended.
C9_Witness ==
    /\ NUM_LINKS_TO_RELAUNCH_BROWSER = 5
    /\ MAX_NUM_LINKS_TO_FOLLOW = 12
    /\ Len(sessionLog) = 12
    /\ Relaunches = {5, 10}
    /\ pc = "done"

\* C10 (domain enforcement): with MUST_INCLUDE_DOMAIN set, a document request
\* whose URL does not include the domain is not continued; with it unset every
\* document request is continued.
C10_DomainEnforcement ==
    \A i \in 1..Len(resolved) :
        resolved[i].request.type = "document" =>
            /\ (MUST_INCLUDE_DOMAIN /\ ~Includes(resolved[i].request.url, DOMAIN_)) =>
                  resolved[i].action /= "continue"
            /\ ~MUST_INCLUDE_DOMAIN => resolved[i].action = "continue"

\* C11 (sub-resource policy): while a link is being navigated to, request
\* interception is active on the page in use with exactly one request handler
\* registered, on a relaunched page and on a page reused across iterations
\* alike; an intercepted request is resolved exactly once, aborted when its
\* resource type is not "document" and continued only when it is.
C11_SubResourcePolicy ==
    pc = "goto" =>
        /\ page.interception
        /\ page.listeners = 1
        /\ Len(resolved) <= 1
        /\ \A i \in 1..Len(resolved) :
              /\ resolved[i].action \in {"continue", "abort"}
              /\ resolved[i].request.type /= "document" => resolved[i].action = "abort"
              /\ resolved[i].action = "continue" => resolved[i].request.type = "document"

\* C11 witness: on the page obtained by a relaunch before the second link an
\* image request was intercepted and aborted, once.
C11_Witness ==
    /\ pc = "goto"
    /\ count = 2
    /\ sessionLog[2] = "relaunch"
    /\ page.id = 2
    /\ resolved = <<[request |-> Request("image", UA), action |-> "abort"]>>

\* C12 (termination): the loop of lines 207-308 ends after finitely many
\* dequeues, and the number of links dequeued never exceeds
\* MAX_NUM_LINKS_TO_FOLLOW, for every seed list, cap and page behaviour.
C12_BoundedDequeues ==
    /\ count <= MAX_NUM_LINKS_TO_FOLLOW
    /\ Len(dequeued) <= MAX_NUM_LINKS_TO_FOLLOW

\* the loop ends: the queue is found empty, or the crawl is ended by an error
LoopEnds == <>(pc \in {"report", "crashed"})
\* the number of dequeues is bounded by the number of URLs ever seen
DequeuesWithinSeen == count <= Len(exploredUrls)

\* C13 (auxiliary failures are not fatal): a step in which the blank-page
\* reset, the screenshot capture, the recording of the link or the attaching
\* of the report may throw always hands over to the next block of the
\* iteration with the pending queue untouched and nothing thrown; the loop is
\* left only with an empty queue, every enqueued link dequeued, and the crawl
\* is ended early only by the session calls of setup and relaunch. A link whose
\* screenshot failed keeps its classification and is what is recorded.
C13_AuxiliaryFailures ==
    [][ /\ (pc = "session" /\ Scheduled(count) = "reset") =>
              /\ pc' = "intercept"
              /\ thrown' = NULL
              /\ UNCHANGED <<synLinks, link, report>>
        /\ (pc = "classify"
              /\ \/ CAPTURE_DESTINATION_PAGE_SCREENSHOT_ON_SUCCESS
                 \/ CAPTURE_DESTINATION_PAGE_SCREENSHOT_ON_FAILURE) =>
              /\ pc' = "record"
              /\ thrown' = NULL
              /\ UNCHANGED <<synLinks, report>>
              /\ outcome.kind = "response" => link'.statusCode = outcome.status
              /\ link'.failureReason = UNDEF <=>
                    (outcome.kind = "response" /\ outcome.status \in 1..399)
        /\ pc = "record" =>
              /\ pc' = "extract"
              /\ thrown' = NULL
              /\ UNCHANGED <<synLinks, link>>
              /\ report' \in {report, Append(report, link)}
        /\ pc = "report" =>
              /\ pc' = "verdict"
              /\ thrown' = NULL
              /\ UNCHANGED report
        /\ pc' = "report" => (synLinks' = << >> /\ dequeued' = enqueued')
        /\ pc' = "crashed" =>
              (pc = "setup" \/ (pc = "session" /\ Scheduled(count) = "relaunch")) ]_vars

\* C13 witness: three links were processed with every screenshot failing, one
\* link could not be recorded and the report could not be attached; the crawl
\* ended normally, the recorded links being succeeded ones.
C13_Witness ==
    /\ pc = "done"
    /\ CAPTURE_DESTINATION_PAGE_SCREENSHOT_ON_SUCCESS
    /\ dequeued = <<UA, UB, UD>>
    /\ Len(report) = 2
    /\ \A i \in 1..2 :
          /\ report[i].statusCode = 200
          /\ report[i].failureReason = UNDEF
          /\ report[i].screenshots = << >>
    /\ ~attached
    /\ synLinks = << >>

\* C14 (propagation policy): the only error the handler's caller ever receives
\* is the verdict on the broken links, raised after the traversal; no error of
\* a collaborator ends the crawl early.
C14_Propagation ==
    /\ pc /= "crashed"
    /\ thrown /= NULL =>
          /\ pc = "failed"
          /\ synLinks = << >>
          /\ CountBroken(report) /= 0
          /\ thrown = canaryError

\* the crawl was ended by the relaunch before a link, links still pending
EndedByRelaunch ==
    /\ pc = "crashed"
    /\ count > 0
    /\ synLinks /= << >>
    /\ thrown = ERR_PROTOCOL

\* C15 (extraction failure is not fatal): when grabLinks throws, before the
\* first anchor or part-way through the anchors, the page adds nothing to the
\* frontier (neither to the pending queue nor to the URLs seen), the link's
\* record and the report are unchanged, and the loop goes on.
C15_ExtractionFailure ==
    [][ (pc = "extract" /\ scanned'.ran /\ scanned'.threw) =>
            /\ pc' = "loop"
            /\ thrown' = NULL
            /\ UNCHANGED <<synLinks, enqueued, link, report>>
            /\ UNCHANGED exploredUrls ]_vars

\* the same without the URLs seen: queue, record and report are unchanged
FailedScanLeavesQueue ==
    [][ (pc = "extract" /\ scanned'.ran /\ scanned'.threw) =>
            /\ pc' = "loop"
            /\ thrown' = NULL
            /\ UNCHANGED <<synLinks, enqueued, link, report>> ]_vars

\* C16 (report 1:1 with the processing cycles): after every completed
\* iteration the report has as many entries as links were processed (count),
\* the last one being the classified record of the link dequeued in that
\* iteration, and the entries are those of the dequeued links in order.
C16_ReportPerCycle ==
    pc = "loop" =>
        /\ Len(report) = count
        /\ count > 0 => report[count] = link
        /\ LinkUrls(report) = dequeued

\* entries are never removed or rewritten: the report only grows at its end
ReportAppendOnly ==
    [][ Len(report') >= Len(report) /\ SubSeq(report', 1, Len(report)) = report ]_vars

\* C17 (explicit timeouts): every page.goto the crawl issues, the navigation
\* to a link and the blank-page reset, is called with a timeout option whose
\* value is the configured TIMEOUT.
C17_ExplicitTimeouts ==
    \A i \in 1..Len(page.gotoOptions) :
        /\ "timeout" \in DOMAIN page.gotoOptions[i]
        /\ page.gotoOptions[i].timeout = TIMEOUT

\* what the calls do pass: the configured value under the key TIMEOUT
TimeoutUnderOtherKey ==
    \A i \in 1..Len(page.gotoOptions) :
        /\ DOMAIN page.gotoOptions[i] = {"waitUntil", "TIMEOUT"}
        /\ page.gotoOptions[i].TIMEOUT = TIMEOUT

\* C18 (extraction guard): grabLinks is invoked on a page if and only if the
\* link just processed succeeded (a response with a truthy status below 400)
\* and fewer than M URLs are seen at that moment; a broken or errored link adds
\* nothing to the seen URLs or the queue; grabLinks is invoked only in the step
\* that follows the recording of the link, whose record is then the last
\* entry of the report.
LinkSucceeded == outcome.kind = "response" /\ outcome.status \in 1..399
C18_ExtractionGuard ==
    [][ /\ pc = "extract" =>
              /\ scanned'.ran <=>
                    (LinkSucceeded /\ Len(exploredUrls) < MAX_NUM_LINKS_TO_FOLLOW)
              /\ ~LinkSucceeded => UNCHANGED <<exploredUrls, synLinks, enqueued>>
              /\ Len(report) = count => report[count] = link
              /\ UNCHANGED <<report, link>>
        /\ scanned'.ran => pc = "extract"
        /\ pc' = "extract" => (pc = "record" /\ report' \in {report, Append(report, link)}) ]_vars

\* C18 witness: the link succeeded with room under the cap, it was recorded,
\* and grabLinks then ran on its page and a link of it was queued.
C18_Witness ==
    /\ pc = "loop"
    /\ scanned.ran /\ ~scanned.threw
    /\ LinkSucceeded
    /\ scanned.seen < MAX_NUM_LINKS_TO_FOLLOW
    /\ report = <<link>>
    /\ Len(synLinks) = 1
    /\ synLinks[1].parentUrl = link.url

\* C19 (no wasted relaunch at the cap): whenever count equals M at the session
\* step of lines 218-224, the link being processed is the last one: the
\* pending queue is empty after its dequeue and M URLs are seen, so that no
\* link can be admitted any more.
C19_LastAtCap ==
    (pc = "session" /\ count = MAX_NUM_LINKS_TO_FOLLOW) =>
        /\ synLinks = << >>
        /\ Len(exploredUrls) >= MAX_NUM_LINKS_TO_FOLLOW

\* the same for the seed lists that are no longer than the cap
LastAtCapForShortSeedLists ==
    (pc = "session" /\ count = MAX_NUM_LINKS_TO_FOLLOW
        /\ Len(URL_LIST) <= MAX_NUM_LINKS_TO_FOLLOW) =>
        /\ synLinks = << >>
        /\ Len(exploredUrls) >= MAX_NUM_LINKS_TO_FOLLOW

\* C20 (the seen set matches the work done): at every loop boundary the URLs
\* in exploredUrls are exactly the URLs pending in the queue or dequeued
\* before, and when the crawl has terminated every one of them has been
\* processed and has an entry in the report.
C20_SeenMatchesWork ==
    /\ pc = "loop" =>
          UrlsIn(exploredUrls) = UrlsIn(LinkUrls(synLinks)) \cup UrlsIn(dequeued)
    /\ pc \in {"done", "failed"} =>
          /\ UrlsIn(exploredUrls) = UrlsIn(dequeued)
          /\ UrlsIn(exploredUrls) \subseteq UrlsIn(LinkUrls(report))

\* the crawl has ended with a URL seen that was never enqueued
SeenButNeverCrawled ==
    /\ pc \in {"done", "failed"}
    /\ \E u \in UrlsIn(exploredUrls) : u \notin UrlsIn(enqueued)
====
